---- MODULE Spec2Model ----
(***************************************************************************)
(* Monthly ETL orchestration of the NYC TLC yellow-taxi pipeline.          *)
(*                                                                         *)
(* Four scripts are modelled:                                              *)
(*   scripts/backfill_tlc_yellow.py                 ("backfill")           *)
(*   scripts/convert_parquet_to_csv_and_load_sql.py ("convert")            *)
(*   scripts/parquet_to_csv_and_load_sql.py         ("parquet_to_csv")     *)
(*   scripts/download_yellow_parquet.py             ("download")           *)
(*                                                                         *)
(* Spec         runs of the three SQL pipelines against one database and   *)
(*              one blob container.                                        *)
(* SpecDownload runs of the parquet downloader against the container.      *)
(*                                                                         *)
(* A unit is a pair <<year, month>>.  Every statement that writes to the   *)
(* database or to storage, and every HTTP request, may raise; reads of the *)
(* log table and blob existence checks are taken to succeed.  A statement  *)
(* that raises has no effect.                                              *)
(***************************************************************************)
EXTENDS Integers, Sequences, FiniteSets, TLC

(* ------------------------------ bounds -------------------------------- *)
\* number of calendar months the runs can address
NumMonths == 3
\* largest MONTHS_COUNT a backfill run is started with
MaxCount == 3
\* number of pipeline runs in one behaviour
MaxRuns == 2
\* number of unit evaluations in one behaviour, over all its runs
MaxEvals == 3
\* number of raised exceptions in one behaviour
MaxFaults == 1
\* length of the trailing window of the default backfill range
Window == 2
\* number of years, from BaseYear on, a range variable of SpecEnum is drawn from
EnumYears == 2
\* largest MONTHS_COUNT of SpecEnum
EnumCount == 13

(* ------------------------- program constants -------------------------- *)
\* first addressable month: the default START_YEAR / START_MONTH
BaseYear == 2024
BaseMonth == 11
RETRIES == 3
MIN_BYTES == 1024
\* backfill's own threshold on len(r.content)
MIN_CONTENT == 1024

(* ----------------------------- calendar ------------------------------- *)
\* datetime(y, m, 1) + relativedelta(months=n), n any integer
AddMonths(y, m, n) ==
    LET k == (y * 12 + (m - 1)) + n
    IN  <<k \div 12, (k % 12) + 1>>

\* the comparison made strict: the range loses its last month
DateLe_Strict(d, e) == d[1] < e[1] \/ (d[1] = e[1] /\ d[2] < e[2])

\* datetime(d) <= datetime(e) for first-of-month dates
DateLe(d, e) == d[1] < e[1] \/ (d[1] = e[1] /\ d[2] <= e[2])

\* the loop running over range(1, count + 1)
build_months_OffByOne(start_year, start_month, count) ==
    [k \in 1..count |-> AddMonths(start_year, start_month, k)]

build_months(start_year, start_month, count) ==
    [k \in 1..count |-> AddMonths(start_year, start_month, k - 1)]

RECURSIVE month_range_from(_, _)
month_range_from(d, end) ==
    IF DateLe(d, end)
    THEN <<d>> \o month_range_from(AddMonths(d[1], d[2], 1), end)
    ELSE <<>>

month_range(start_y, start_m, end_y, end_m) ==
    month_range_from(<<start_y, start_m>>, <<end_y, end_m>>)

UnitAt(k) == AddMonths(BaseYear, BaseMonth, k - 1)
AllUnits == {UnitAt(k) : k \in 1..NumMonths}

Range(s) == {s[k] : k \in 1..Len(s)}

(* ------------------------------ state --------------------------------- *)
VARIABLES
    today,                \* datetime.today(), as <<year, month>>
    parquet,              \* blob parquet/yellow/...: unit -> size in bytes, -1 = no blob
    csv,                  \* blob csv/yellow/...: unit -> run that built it, 0 = no blob
    download_log,         \* dbo.download_log, rows in insertion order
    etl_run_log,          \* dbo.etl_run_log, rows in insertion order
    raw,                  \* dbo.stg_yellow_trip_raw: units whose rows it holds
    stg,                  \* typed staging table: units whose rows it holds
    fact,                 \* fact table: unit -> number of loads of the unit it holds
    script,               \* the script that is running
    FORCE_REPROCESS,      \* backfill
    delete_existing_csv,  \* parquet_to_csv
    DELETE_EXISTING,      \* download
    args,                 \* START_YEAR, START_MONTH, MONTHS_COUNT, END_YEAR, END_MONTH
    months,               \* the enumerated units of the run
    batches,              \* per run started: its units and its calendar month
    i,                    \* index in months of the unit being handled
    pc,                   \* position in main()
    already,              \* local of convert / parquet_to_csv
    processed, skipped, failed, deleted,
    outcome,              \* per index of months: how the unit ended in this run
    ops,                  \* writes committed for unit i so far in this run
    attempts,             \* HTTP requests made for unit i in this run
    r,                    \* the response to the last of them
    runs,                 \* runs started
    evals,                \* units evaluated, over all runs
    run_ts,               \* number of log rows at the start of the run
    faults                \* exceptions raised so far

dbvars    == <<download_log, etl_run_log, raw, stg, fact>>
blobvars  == <<parquet, csv>>
cfgvars   == <<today, script, FORCE_REPROCESS, delete_existing_csv, DELETE_EXISTING,
               args, months, batches, runs, run_ts>>
countvars == <<processed, skipped, failed, deleted>>
vars == <<today, parquet, csv, download_log, etl_run_log, raw, stg, fact, script,
          FORCE_REPROCESS, delete_existing_csv, DELETE_EXISTING, args, months, batches,
          i, pc, already, processed, skipped, failed, deleted, outcome, ops, attempts, r,
          runs, evals, run_ts, faults>>

\* the unit being handled
cur == months[i]

\* rows written so far, in both log tables
Now == Len(download_log) + Len(etl_run_log)

Pending == [st |-> "PENDING", why |-> "", audit |-> "none"]

\* the environment of a run: a range variable that is not set is 0
Args(sy, sm, count, ey, em) ==
    [start_year |-> sy, start_month |-> sm, count |-> count,
     end_year |-> ey, end_month |-> em]

NoArgs == Args(0, 0, 0, 0, 0)

\* no request made yet
NoResponse == [status |-> -1, len |-> 0, parses |-> FALSE]

(* --------------------------- the database ----------------------------- *)
is_current_month(y, m) == today[1] = y /\ today[2] = m

\* the query with 'downloaded' left out of its status list
exists_in_download_log_NoDownloaded(y, m) ==
    \E k \in 1..Len(download_log) :
        /\ download_log[k].year = y
        /\ download_log[k].month = m
        /\ download_log[k].status \in {"loaded", "completed"}

exists_in_download_log(y, m) ==
    \E k \in 1..Len(download_log) :
        /\ download_log[k].year = y
        /\ download_log[k].month = m
        /\ download_log[k].status \in {"downloaded", "loaded", "completed"}

\* INSERT INTO dbo.etl_run_log
log_etl(y, m, status, message) ==
    Append(etl_run_log,
           [year |-> y, month |-> m, status |-> status, message |-> message,
            ts |-> Now + 1])

\* EXEC dbo.usp_log_download_start ... @status='downloaded'
usp_log_download_start(y, m, status) ==
    Append(download_log,
           [year |-> y, month |-> m, status |-> status, message |-> "",
            ts |-> Now + 1])

\* EXEC dbo.usp_delete_month_refresh: the month's rows leave the fact table
usp_delete_month_refresh(y, m) == [fact EXCEPT ![<<y, m>>] = 0]

\* EXEC dbo.usp_stage_from_raw_yellow: the landing rows are typed into staging
usp_stage_from_raw_yellow(y, m) == raw

\* EXEC dbo.usp_load_month_from_staging: the staged rows of the month are
\* appended to the fact table
usp_load_month_from_staging(y, m) ==
    IF <<y, m>> \in stg THEN [fact EXCEPT ![<<y, m>>] = @ + 1] ELSE fact

(* ------------------------------- Init --------------------------------- *)
InitDb ==
    /\ download_log = <<>>
    /\ etl_run_log = <<>>
    /\ raw = {}
    /\ stg = {}
    /\ fact = [u \in AllUnits |-> 0]

InitRun ==
    /\ script = "none"
    /\ FORCE_REPROCESS = FALSE
    /\ delete_existing_csv = FALSE
    /\ DELETE_EXISTING = FALSE
    /\ args = NoArgs
    /\ months = <<>>
    /\ batches = <<>>
    /\ i = 0
    /\ pc = "idle"
    /\ already = FALSE
    /\ processed = 0 /\ skipped = 0 /\ failed = 0 /\ deleted = 0
    /\ outcome = <<>>
    /\ ops = <<>>
    /\ attempts = 0
    /\ r = NoResponse
    /\ runs = 0
    /\ evals = 0
    /\ run_ts = 0
    /\ faults = 0

Init ==
    /\ today = UnitAt(Window)
    /\ parquet = [u \in AllUnits |-> -1]
    /\ csv = [u \in AllUnits |-> 0]
    /\ InitDb
    /\ InitRun

(* ----------------------- the per-unit handlers ------------------------ *)
Ended(st, why, audit) ==
    [outcome EXCEPT ![i] = [st |-> st, why |-> why, audit |-> audit]]

\* the handler placed around the loop instead of inside it: the first unit
\* that fails ends the run
Except_AbortsRun(e, cost) ==
    /\ faults + cost <= MaxFaults
    /\ faults' = faults + cost
    /\ failed' = failed + 1
    /\ pc' = "done"
    /\ \/ /\ etl_run_log' = log_etl(cur[1], cur[2], "failed", e)
          /\ outcome' = Ended("FAILED", e, "written")
       \/ /\ etl_run_log' = etl_run_log
          /\ outcome' = Ended("FAILED", e, "lost")
    /\ UNCHANGED <<processed, skipped>>

\* except Exception as e: failed += 1; try: log 'failed', commit; except: pass
\* cost: 1 when the exception e is an injected fault, 0 when the state forces it;
\* the insert of the failed row may raise in its turn, whatever raised e
Except(e, cost) ==
    /\ faults + cost <= MaxFaults
    /\ faults' = faults + cost
    /\ failed' = failed + 1
    /\ pc' = "loop"
    /\ \/ /\ etl_run_log' = log_etl(cur[1], cur[2], "failed", e)
          /\ outcome' = Ended("FAILED", e, "written")
       \/ /\ etl_run_log' = etl_run_log
          /\ outcome' = Ended("FAILED", e, "lost")
    /\ UNCHANGED <<processed, skipped>>

\* the soft skip that falls through to the failure handler after its row is
\* written: the unit gets a skipped row and a failed row
SoftSkip_FallsThrough(reason) ==
    /\ etl_run_log' =
          Append(log_etl(cur[1], cur[2], "skipped", reason),
                 [year |-> cur[1], month |-> cur[2], status |-> "failed",
                  message |-> reason, ts |-> Now + 2])
    /\ failed' = failed + 1
    /\ outcome' = Ended("FAILED", reason, "written")
    /\ pc' = "loop"
    /\ UNCHANGED <<processed, skipped, faults>>

\* log_etl(cur, y, m, "skipped", reason); cn.commit(); skipped += 1; continue
SoftSkip(reason) ==
    \/ /\ etl_run_log' = log_etl(cur[1], cur[2], "skipped", reason)
       /\ skipped' = skipped + 1
       /\ outcome' = Ended("SKIPPED", reason, "written")
       /\ pc' = "loop"
       /\ UNCHANGED <<processed, failed, faults>>
    \/ Except("log_etl", 1)

\* the settlement rule without its FORCE_REPROCESS test
ShouldSkip_IgnoresForce(u) ==
    /\ exists_in_download_log(u[1], u[2])
    /\ ~is_current_month(u[1], u[2])

\* the settlement rule at the top of the loop body
ShouldSkip(u) ==
    /\ exists_in_download_log(u[1], u[2])
    /\ ~is_current_month(u[1], u[2])
    /\ ~FORCE_REPROCESS

\* for (y, m) in months: ... skipped += 1; continue
SkipSettled ==
    /\ pc = "loop"
    /\ script \in {"backfill", "convert", "parquet_to_csv"}
    /\ i < Len(months)
    /\ ShouldSkip(months[i + 1])
    /\ i' = i + 1
    /\ evals' = evals + 1
    /\ skipped' = skipped + 1
    /\ outcome' = [outcome EXCEPT ![i + 1] =
                      [st |-> "SKIPPED", why |-> "settled", audit |-> "none"]]
    /\ ops' = <<>>
    /\ attempts' = 0
    /\ r' = NoResponse
    /\ already' = exists_in_download_log(months[i + 1][1], months[i + 1][2])
    /\ UNCHANGED <<dbvars, blobvars, cfgvars, pc, processed, failed, deleted, faults>>

\* for (y, m) in months: the unit is not skipped and enters the try block
Enter ==
    /\ pc = "loop"
    /\ script \in {"backfill", "convert", "parquet_to_csv"}
    /\ i < Len(months)
    /\ ~ShouldSkip(months[i + 1])
    /\ i' = i + 1
    /\ evals' = evals + 1
    /\ outcome' = [outcome EXCEPT ![i + 1] =
                      [st |-> "PROCESSING", why |-> "", audit |-> "none"]]
    /\ ops' = <<>>
    /\ attempts' = 0
    /\ r' = NoResponse
    /\ already' = exists_in_download_log(months[i + 1][1], months[i + 1][2])
    /\ pc' = IF script = "backfill" THEN "refresh" ELSE "parquet_exists"
    /\ UNCHANGED <<dbvars, blobvars, cfgvars, countvars, faults>>

\* where the refresh step stands in each script
AfterRefresh == IF script = "backfill" THEN "fetch" ELSE "log_download"

\* the refresh made to depend on the forced-reprocess flag
NeedsRefresh_OnlyForced ==
    /\ IF script = "backfill" THEN exists_in_download_log(cur[1], cur[2]) ELSE already
    /\ is_current_month(cur[1], cur[2])
    /\ FORCE_REPROCESS

\* the refresh with its current-month test left out
NeedsRefresh_AnyMonth ==
    IF script = "backfill" THEN exists_in_download_log(cur[1], cur[2]) ELSE already

NeedsRefresh ==
    /\ IF script = "backfill" THEN exists_in_download_log(cur[1], cur[2]) ELSE already
    /\ is_current_month(cur[1], cur[2])

RefreshNotNeeded ==
    /\ pc = "refresh"
    /\ ~NeedsRefresh
    /\ pc' = AfterRefresh
    /\ UNCHANGED <<dbvars, blobvars, cfgvars, countvars, i, already, outcome, ops,
                   attempts, r, evals, faults>>

\* EXEC dbo.usp_delete_month_refresh; cn.commit()
Refresh ==
    /\ pc = "refresh"
    /\ NeedsRefresh
    /\ \/ /\ fact' = usp_delete_month_refresh(cur[1], cur[2])
          /\ ops' = Append(ops, "delete_month")
          /\ pc' = AfterRefresh
          /\ UNCHANGED <<download_log, etl_run_log, raw, stg, countvars, outcome, faults>>
       \/ /\ Except("delete_month", 1)
          /\ UNCHANGED <<download_log, raw, stg, fact, ops>>
    /\ UNCHANGED <<blobvars, cfgvars, i, already, attempts, r, evals, deleted>>

(* ------------------ backfill: fetch, convert, upload ------------------ *)
\* what requests.get can bring back: status 0 stands for a raised
\* connection error or timeout; len is len(r.content)
HttpResponses ==
    {[status |-> c, len |-> 0, parses |-> FALSE] : c \in {0, 403, 404, 500}}
    \cup {[status |-> 200, len |-> n, parses |-> FALSE] :
             n \in {0, MIN_CONTENT - 1, MIN_CONTENT}}
    \cup {[status |-> 200, len |-> MIN_CONTENT, parses |-> TRUE]}

\* requests.get ... pd.read_parquet: the soft skips and the hard failures
B_Fetch ==
    /\ pc = "fetch"
    /\ script = "backfill"
    /\ attempts' = attempts + 1
    /\ r' \in HttpResponses
    /\ \/ /\ r'.status = 0
            /\ Except("requests.get", 1)
         \/ /\ r'.status = 404
            /\ SoftSkip("Parquet not available at source (404)")
         \/ /\ r'.status \in {403, 500}
            /\ Except("raise_for_status", 1)
         \/ /\ r'.status = 200
            /\ r'.len < MIN_CONTENT
            /\ SoftSkip("Empty or invalid parquet response")
         \/ /\ r'.status = 200
            /\ r'.len >= MIN_CONTENT
            /\ ~r'.parses
            /\ SoftSkip("Parquet parse error")
         \/ /\ r'.status = 200
            /\ r'.len >= MIN_CONTENT
            /\ r'.parses
            /\ pc' = "upload"
            /\ UNCHANGED <<etl_run_log, countvars, outcome, faults>>
    /\ UNCHANGED <<download_log, raw, stg, fact, blobvars, cfgvars, i, already, ops,
                   evals, deleted>>

\* df.to_csv(...); bc.upload_blob(name=csv_blob_path, ..., overwrite=True)
B_Upload ==
    /\ pc = "upload"
    /\ script = "backfill"
    /\ \/ /\ csv' = [csv EXCEPT ![cur] = runs]
          /\ ops' = Append(ops, "upload_csv")
          /\ pc' = "log_download"
          /\ UNCHANGED <<etl_run_log, countvars, outcome, faults>>
       \/ /\ Except("upload_blob", 1)
          /\ UNCHANGED <<csv, ops>>
    /\ UNCHANGED <<download_log, raw, stg, fact, parquet, cfgvars, i, already,
                   attempts, r, evals, deleted>>

(* ------------- convert / parquet_to_csv: blob to csv blob ------------- *)
\* the skip for a missing parquet that leaves the counter alone
ParquetMissing_NotCounted ==
    /\ pc = "parquet_exists"
    /\ parquet[cur] = -1
    /\ outcome' = Ended("SKIPPED", "parquet not found in Blob", "none")
    /\ pc' = "loop"
    /\ UNCHANGED <<dbvars, blobvars, cfgvars, i, already, countvars, ops, attempts, r,
                   evals, faults>>

\* if not parquet_client.exists(): skipped += 1; continue
ParquetMissing ==
    /\ pc = "parquet_exists"
    /\ parquet[cur] = -1
    /\ skipped' = skipped + 1
    /\ outcome' = Ended("SKIPPED", "parquet not found in Blob", "none")
    /\ pc' = "loop"
    /\ UNCHANGED <<dbvars, blobvars, cfgvars, i, already, processed, failed, deleted,
                   ops, attempts, r, evals, faults>>

\* download_blob().readall(); pd.read_parquet; df.to_csv; upload_blob(overwrite=True)
ConvertAndUpload ==
    \/ /\ csv' = [csv EXCEPT ![cur] = runs]
       /\ ops' = Append(ops, "upload_csv")
       /\ pc' = "refresh"
       /\ UNCHANGED <<etl_run_log, countvars, outcome, faults>>
    \/ /\ \E e \in {"download_blob", "read_parquet", "upload_blob"} : Except(e, 1)
       /\ UNCHANGED <<csv, ops, deleted>>

C_Convert ==
    /\ pc = "parquet_exists"
    /\ script = "convert"
    /\ parquet[cur] # -1
    /\ ConvertAndUpload
    /\ UNCHANGED <<download_log, raw, stg, fact, parquet, cfgvars, i, already,
                   attempts, r, evals>>

\* if csv_client.exists() and delete_existing_csv: delete_blob(); csv_deleted += 1
P_DeleteCsv ==
    /\ pc = "parquet_exists"
    /\ script = "parquet_to_csv"
    /\ parquet[cur] # -1
    /\ csv[cur] # 0
    /\ delete_existing_csv
    /\ \/ /\ csv' = [csv EXCEPT ![cur] = 0]
          /\ deleted' = deleted + 1
          /\ ops' = Append(ops, "delete_csv")
          /\ pc' = "convert"
          /\ UNCHANGED <<etl_run_log, processed, skipped, failed, outcome, faults>>
       \/ /\ Except("delete_blob", 1)
          /\ UNCHANGED <<csv, ops, deleted>>
    /\ UNCHANGED <<download_log, raw, stg, fact, parquet, cfgvars, i, already,
                   attempts, r, evals>>

\* if csv_client.exists() and not delete_existing_csv: reuse (no reconvert)
P_Reuse ==
    /\ pc = "parquet_exists"
    /\ script = "parquet_to_csv"
    /\ parquet[cur] # -1
    /\ csv[cur] # 0
    /\ ~delete_existing_csv
    /\ pc' = "refresh"
    /\ UNCHANGED <<dbvars, blobvars, cfgvars, countvars, i, already, outcome, ops,
                   attempts, r, evals, faults>>

\* else: download, convert and upload the csv
P_Convert ==
    /\ script = "parquet_to_csv"
    /\ \/ pc = "convert"
       \/ pc = "parquet_exists" /\ parquet[cur] # -1 /\ csv[cur] = 0
    /\ ConvertAndUpload
    /\ UNCHANGED <<download_log, raw, stg, fact, parquet, cfgvars, i, already,
                   attempts, r, evals>>

(* ------------------------- land and promote --------------------------- *)
\* EXEC dbo.usp_log_download_start ... 'downloaded'; cn.commit()
LogDownload ==
    /\ pc = "log_download"
    /\ script \in {"backfill", "convert"}
    /\ \/ /\ download_log' = usp_log_download_start(cur[1], cur[2], "downloaded")
          /\ ops' = Append(ops, "log_download")
          /\ pc' = "truncate"
          /\ UNCHANGED <<etl_run_log, countvars, outcome, faults>>
       \/ /\ Except("usp_log_download_start", 1)
          /\ UNCHANGED <<download_log, ops, deleted>>
    /\ UNCHANGED <<raw, stg, fact, blobvars, cfgvars, i, already, attempts, r, evals>>

\* try: EXEC dbo.usp_log_download_start; commit  except Exception: cn.rollback()
P_LogDownload ==
    /\ pc = "log_download"
    /\ script = "parquet_to_csv"
    /\ \/ /\ download_log' = usp_log_download_start(cur[1], cur[2], "downloaded")
          /\ ops' = Append(ops, "log_download")
          /\ UNCHANGED faults
       \/ /\ faults < MaxFaults
          /\ faults' = faults + 1
          /\ UNCHANGED <<download_log, ops>>
    /\ pc' = "truncate"
    /\ UNCHANGED <<etl_run_log, raw, stg, fact, blobvars, cfgvars, countvars, i,
                   already, outcome, attempts, r, evals>>

\* the truncate with its error swallowed: the bulk load is issued although the
\* landing table was not cleared
Truncate_SwallowsError ==
    /\ pc = "truncate"
    /\ \/ /\ raw' = {}
          /\ ops' = Append(ops, "truncate")
          /\ UNCHANGED faults
       \/ /\ faults < MaxFaults
          /\ faults' = faults + 1
          /\ UNCHANGED <<raw, ops>>
    /\ pc' = "bulk"
    /\ UNCHANGED <<download_log, etl_run_log, stg, fact, blobvars, cfgvars, countvars,
                   i, already, outcome, attempts, r, evals>>

\* the truncate that clears the landing table for the first unit of a run only
Truncate_FirstUnitOnly ==
    /\ pc = "truncate"
    /\ \/ /\ raw' = IF i = 1 THEN {} ELSE raw
          /\ ops' = Append(ops, "truncate")
          /\ pc' = "bulk"
          /\ UNCHANGED <<etl_run_log, countvars, outcome, faults>>
       \/ /\ Except("truncate", 1)
          /\ UNCHANGED <<raw, ops, deleted>>
    /\ UNCHANGED <<download_log, stg, fact, blobvars, cfgvars, i, already, attempts, r,
                   evals>>

\* TRUNCATE TABLE dbo.stg_yellow_trip_raw; cn.commit()
Truncate ==
    /\ pc = "truncate"
    /\ \/ /\ raw' = {}
          /\ ops' = Append(ops, "truncate")
          /\ pc' = "bulk"
          /\ UNCHANGED <<etl_run_log, countvars, outcome, faults>>
       \/ /\ Except("truncate", 1)
          /\ UNCHANGED <<raw, ops, deleted>>
    /\ UNCHANGED <<download_log, stg, fact, blobvars, cfgvars, i, already, attempts, r,
                   evals>>

\* BULK INSERT dbo.stg_yellow_trip_raw FROM csv_blob_path; cn.commit()
BulkInsert ==
    /\ pc = "bulk"
    /\ \/ /\ csv[cur] # 0
          /\ raw' = raw \cup {cur}
          /\ ops' = Append(ops, "bulk_insert")
          /\ pc' = "stage"
          /\ UNCHANGED <<etl_run_log, countvars, outcome, faults>>
       \/ /\ Except("bulk_insert", IF csv[cur] # 0 THEN 1 ELSE 0)
          /\ UNCHANGED <<raw, ops, deleted>>
    /\ UNCHANGED <<download_log, stg, fact, blobvars, cfgvars, i, already, attempts, r,
                   evals>>

\* the stage step with a cleanup in its failure path: the landing table is
\* emptied again when the procedure raises
StageFromRaw_CleansUp ==
    /\ pc = "stage"
    /\ \/ /\ stg' = usp_stage_from_raw_yellow(cur[1], cur[2])
          /\ ops' = Append(ops, "stage_from_raw")
          /\ pc' = "load"
          /\ UNCHANGED <<raw, etl_run_log, countvars, outcome, faults>>
       \/ /\ Except("usp_stage_from_raw_yellow", 1)
          /\ raw' = {}
          /\ UNCHANGED <<stg, ops, deleted>>
    /\ UNCHANGED <<download_log, fact, blobvars, cfgvars, i, already, attempts, r,
                   evals>>

\* EXEC dbo.usp_stage_from_raw_yellow; cn.commit()
StageFromRaw ==
    /\ pc = "stage"
    /\ \/ /\ stg' = usp_stage_from_raw_yellow(cur[1], cur[2])
          /\ ops' = Append(ops, "stage_from_raw")
          /\ pc' = "load"
          /\ UNCHANGED <<etl_run_log, countvars, outcome, faults>>
       \/ /\ Except("usp_stage_from_raw_yellow", 1)
          /\ UNCHANGED <<stg, ops, deleted>>
    /\ UNCHANGED <<download_log, raw, fact, blobvars, cfgvars, i, already, attempts, r,
                   evals>>

\* EXEC dbo.usp_load_month_from_staging; cn.commit(); processed += 1
LoadFromStaging ==
    /\ pc = "load"
    /\ \/ /\ fact' = usp_load_month_from_staging(cur[1], cur[2])
          /\ ops' = Append(ops, "load_from_staging")
          /\ processed' = processed + 1
          /\ outcome' = Ended("COMPLETED", "", "none")
          /\ pc' = "loop"
          /\ UNCHANGED <<etl_run_log, skipped, failed, deleted, faults>>
       \/ /\ Except("usp_load_month_from_staging", 1)
          /\ UNCHANGED <<fact, ops, deleted>>
    /\ UNCHANGED <<download_log, raw, stg, blobvars, cfgvars, i, already, attempts, r,
                   evals>>

(* --------------------------- start and end ---------------------------- *)
months_last_36 ==
    LET start == AddMonths(today[1], today[2], 0 - (Window - 1))
    IN  [k \in 1..Window |-> AddMonths(start[1], start[2], k - 1)]

\* main() up to the loop, with the batch the environment selects.  pq is the
\* parquet part of the container as the run finds it, env the range variables
StartRun(name, batch, force, del, delpq, pq, env) ==
    /\ pc \in {"idle", "done"}
    /\ runs < MaxRuns
    /\ Range(batch) \subseteq AllUnits
    /\ evals + Len(batch) <= MaxEvals
    /\ script' = name
    /\ FORCE_REPROCESS' = force
    /\ delete_existing_csv' = del
    /\ DELETE_EXISTING' = delpq
    /\ args' = env
    /\ months' = batch
    /\ batches' = Append(batches, [months |-> batch, today |-> today])
    /\ parquet' = pq
    /\ runs' = runs + 1
    /\ run_ts' = Now
    /\ i' = 0
    /\ pc' = "loop"
    /\ already' = FALSE
    /\ processed' = 0 /\ skipped' = 0 /\ failed' = 0 /\ deleted' = 0
    /\ outcome' = [k \in 1..Len(batch) |-> Pending]
    /\ ops' = <<>>
    /\ attempts' = 0
    /\ r' = NoResponse
    /\ UNCHANGED <<today, dbvars, csv, evals, faults>>

\* the downloader runs between the runs of the SQL pipelines: the parquet
\* blobs a convert run finds for its batch
Containers(batch) ==
    {[u \in AllUnits |-> IF u \in found THEN MIN_BYTES ELSE -1] :
        found \in SUBSET Range(batch)}

B_Start ==
    \E force \in BOOLEAN :
        \/ \E s \in AllUnits, count \in 0..MaxCount :
              StartRun("backfill", build_months(s[1], s[2], count), force, FALSE,
                       FALSE, parquet, Args(s[1], s[2], count, 0, 0))
        \/ StartRun("backfill", months_last_36, force, FALSE, FALSE, parquet, NoArgs)

C_Start ==
    \E s \in AllUnits, e \in AllUnits :
        LET batch == month_range(s[1], s[2], e[1], e[2])
        IN  \E pq \in Containers(batch) :
                StartRun("convert", batch, FALSE, FALSE, FALSE, pq,
                         Args(s[1], s[2], 0, e[1], e[2]))

P_Start ==
    \E s \in AllUnits, e \in AllUnits, del \in BOOLEAN :
        LET batch == month_range(s[1], s[2], e[1], e[2])
        IN  \E pq \in Containers(batch) :
                StartRun("parquet_to_csv", batch, FALSE, del, FALSE, pq,
                         Args(s[1], s[2], 0, e[1], e[2]))

\* the summary placed behind a test that the loop index never satisfies
Finish_OffByOne ==
    /\ pc = "loop"
    /\ i = Len(months) + 1
    /\ pc' = "done"
    /\ UNCHANGED <<dbvars, blobvars, cfgvars, countvars, i, already, outcome, ops,
                   attempts, r, evals, faults>>

\* the loop is exhausted: close the connection and print the summary
Finish ==
    /\ pc = "loop"
    /\ i = Len(months)
    /\ pc' = "done"
    /\ UNCHANGED <<dbvars, blobvars, cfgvars, countvars, i, already, outcome, ops,
                   attempts, r, evals, faults>>

\* the calendar month changes between two runs
AdvanceMonth ==
    /\ pc = "done"
    /\ runs < MaxRuns
    /\ AddMonths(today[1], today[2], 1) \in AllUnits
    /\ today' = AddMonths(today[1], today[2], 1)
    /\ UNCHANGED <<dbvars, blobvars, script, FORCE_REPROCESS, delete_existing_csv,
                   DELETE_EXISTING, args, months, batches, runs, run_ts, countvars, i, pc,
                   already,
                   outcome, ops, attempts, r, evals, faults>>

Next ==
    \/ B_Start \/ C_Start \/ P_Start
    \/ SkipSettled \/ Enter
    \/ RefreshNotNeeded \/ Refresh
    \/ B_Fetch \/ B_Upload
    \/ ParquetMissing \/ C_Convert
    \/ P_DeleteCsv \/ P_Reuse \/ P_Convert
    \/ LogDownload \/ P_LogDownload
    \/ Truncate \/ BulkInsert \/ StageFromRaw \/ LoadFromStaging
    \/ Finish \/ AdvanceMonth

Spec == Init /\ [][Next]_vars

\* a step of the run in progress.  main() is one sequential program: while
\* it is between its start and its summary its next statement is executed
UnitStep ==
    \/ SkipSettled \/ Enter
    \/ RefreshNotNeeded \/ Refresh
    \/ B_Fetch \/ B_Upload
    \/ ParquetMissing \/ C_Convert
    \/ P_DeleteCsv \/ P_Reuse \/ P_Convert
    \/ LogDownload \/ P_LogDownload
    \/ Truncate \/ BulkInsert \/ StageFromRaw \/ LoadFromStaging
    \/ Finish

SpecLive == Init /\ [][Next]_vars /\ WF_vars(UnitStep)

(* --------------------------- the downloader --------------------------- *)
\* START_YEAR, START_MONTH .. END_YEAR, END_MONTH: the configured range
D_Start ==
    \E s \in AllUnits, e \in AllUnits, del \in BOOLEAN :
        StartRun("download", month_range(s[1], s[2], e[1], e[2]), FALSE, FALSE,
                 del, parquet, Args(s[1], s[2], 0, e[1], e[2]))

\* for y, m in month_range(...): blob = container.get_blob_client(blob_path)
D_Next ==
    /\ pc = "loop"
    /\ script = "download"
    /\ i < Len(months)
    /\ i' = i + 1
    /\ evals' = evals + 1
    /\ outcome' = [outcome EXCEPT ![i + 1] =
                      [st |-> "PROCESSING", why |-> "", audit |-> "none"]]
    /\ ops' = <<>>
    /\ attempts' = 0
    /\ r' = NoResponse
    /\ pc' = "try"
    /\ UNCHANGED <<dbvars, blobvars, cfgvars, countvars, already, faults>>

\* except Exception as e: failed += 1; time.sleep(3)
D_Except(e, cost) ==
    /\ faults + cost <= MaxFaults
    /\ faults' = faults + cost
    /\ failed' = failed + 1
    /\ outcome' = Ended("FAILED", e, "none")
    /\ pc' = "loop"
    /\ UNCHANGED <<processed, skipped>>

\* the delete taken for every existing blob, whatever DELETE_EXISTING is
D_Delete_IgnoresFlag ==
    /\ pc = "try"
    /\ parquet[cur] # -1
    /\ \/ /\ parquet' = [parquet EXCEPT ![cur] = -1]
          /\ deleted' = deleted + 1
          /\ ops' = Append(ops, "delete_blob")
          /\ pc' = "attempt"
          /\ UNCHANGED <<processed, skipped, failed, outcome, faults>>
       \/ /\ D_Except("delete_blob", 1)
          /\ UNCHANGED <<parquet, deleted, ops>>
    /\ UNCHANGED <<dbvars, csv, cfgvars, i, already, attempts, r, evals>>

\* if blob.exists() and DELETE_EXISTING: blob.delete_blob(); deleted += 1
D_Delete ==
    /\ pc = "try"
    /\ parquet[cur] # -1
    /\ DELETE_EXISTING
    /\ \/ /\ parquet' = [parquet EXCEPT ![cur] = -1]
          /\ deleted' = deleted + 1
          /\ ops' = Append(ops, "delete_blob")
          /\ pc' = "attempt"
          /\ UNCHANGED <<processed, skipped, failed, outcome, faults>>
       \/ /\ D_Except("delete_blob", 1)
          /\ UNCHANGED <<parquet, deleted, ops>>
    /\ UNCHANGED <<dbvars, csv, cfgvars, i, already, attempts, r, evals>>

\* if blob.exists() and not DELETE_EXISTING: skipped += 1; continue
D_SkipExisting ==
    /\ pc = "try"
    /\ parquet[cur] # -1
    /\ ~DELETE_EXISTING
    /\ skipped' = skipped + 1
    /\ outcome' = Ended("SKIPPED", "already exists (safe mode)", "none")
    /\ pc' = "loop"
    /\ UNCHANGED <<dbvars, blobvars, cfgvars, processed, failed, deleted, i, already,
                   ops, attempts, r, evals, faults>>

\* for attempt in range(1, RETRIES + 1): one pass through the loop body, with
\* upload_stream_to_blob inlined.  Every way through the body leaves the loop.
D_Attempt ==
    /\ \/ pc = "attempt"
       \/ pc = "try" /\ parquet[cur] = -1
    /\ attempts < RETRIES
    /\ attempts' = attempts + 1
    /\ r' \in HttpResponses
    /\ \/ /\ r'.status = 0
            /\ D_Except("requests.get", 1)
            /\ UNCHANGED <<parquet, ops>>
         \/ /\ r'.status \in {403, 404}
            /\ skipped' = skipped + 1
            /\ outcome' = Ended("SKIPPED", IF r'.status = 403 THEN "HTTP 403" ELSE "HTTP 404",
                                "none")
            /\ pc' = "loop"
            /\ UNCHANGED <<parquet, ops, processed, failed, faults>>
         \/ /\ r'.status = 500
            /\ D_Except("raise_for_status", 1)
            /\ UNCHANGED <<parquet, ops>>
         \/ /\ r'.status = 200
            /\ D_Except("upload_blob", 1)
            /\ UNCHANGED <<parquet, ops>>
         \/ /\ r'.status = 200
            /\ r'.len < MIN_BYTES
            /\ parquet' = [parquet EXCEPT ![cur] = r'.len]
            /\ ops' = Append(ops, "upload_blob")
            /\ D_Except("Invalid upload size", 0)
         \/ /\ r'.status = 200
            /\ r'.len >= MIN_BYTES
            /\ parquet' = [parquet EXCEPT ![cur] = r'.len]
            /\ ops' = Append(ops, "upload_blob")
            /\ processed' = processed + 1
            /\ outcome' = Ended("COMPLETED", "", "none")
            /\ pc' = "loop"
            /\ UNCHANGED <<skipped, failed, faults>>
    /\ UNCHANGED <<dbvars, csv, cfgvars, deleted, i, already, evals>>

NextD ==
    \/ D_Start \/ D_Next
    \/ D_Delete \/ D_SkipExisting \/ D_Attempt
    \/ Finish

SpecDownload == Init /\ [][NextD]_vars

\* a step of the download run in progress
DownloadStep == D_Next \/ D_Delete \/ D_SkipExisting \/ D_Attempt \/ Finish

SpecDownloadLive == Init /\ [][NextD]_vars /\ WF_vars(DownloadStep)

(* ------------------------- the enumerators --------------------------- *)
\* the range variables a run can be started with
EnumArgs ==
    {Args(sy, sm, count, ey, em) :
        sy \in BaseYear..(BaseYear + EnumYears - 1), sm \in 1..12,
        count \in 0..EnumCount,
        ey \in BaseYear..(BaseYear + EnumYears - 1), em \in 1..12}

InitEnum ==
    /\ today \in AllUnits
    /\ parquet = [u \in AllUnits |-> -1]
    /\ csv = [u \in AllUnits |-> 0]
    /\ InitDb
    /\ script = "none"
    /\ FORCE_REPROCESS = FALSE
    /\ delete_existing_csv = FALSE
    /\ DELETE_EXISTING = FALSE
    /\ args \in EnumArgs
    /\ months = <<>>
    /\ batches = <<>>
    /\ i = 0
    /\ pc = "idle"
    /\ already = FALSE
    /\ processed = 0 /\ skipped = 0 /\ failed = 0 /\ deleted = 0
    /\ outcome = <<>>
    /\ ops = <<>>
    /\ attempts = 0
    /\ r = NoResponse
    /\ runs = 0
    /\ evals = 0
    /\ run_ts = 0
    /\ faults = 0

\* backfill, START_YEAR, START_MONTH and MONTHS_COUNT set:
\* months = build_months(int(start_year), int(start_month), int(months_count))
E_BuildMonths ==
    /\ pc = "idle"
    /\ script' = "backfill"
    /\ months' = build_months(args.start_year, args.start_month, args.count)
    /\ pc' = "loop"
    /\ UNCHANGED <<dbvars, blobvars, today, FORCE_REPROCESS, delete_existing_csv,
                   DELETE_EXISTING, args, batches, runs, run_ts, countvars, i, already,
                   outcome, ops, attempts, r, evals, faults>>

\* convert, parquet_to_csv, download:
\* for (y, m) in month_range(start_y, start_m, end_y, end_m)
E_MonthRange ==
    /\ pc = "idle"
    /\ script' = "convert"
    /\ months' = month_range(args.start_year, args.start_month, args.end_year,
                             args.end_month)
    /\ pc' = "loop"
    /\ UNCHANGED <<dbvars, blobvars, today, FORCE_REPROCESS, delete_existing_csv,
                   DELETE_EXISTING, args, batches, runs, run_ts, countvars, i, already,
                   outcome, ops, attempts, r, evals, faults>>

NextEnum == E_BuildMonths \/ E_MonthRange

SpecEnum == InitEnum /\ [][NextEnum]_vars

TypeOK ==
    /\ today \in AllUnits
    /\ pc \in {"idle", "loop", "refresh", "fetch", "upload", "parquet_exists",
               "convert", "log_download", "truncate", "bulk", "stage", "load", "done",
               "try", "attempt"}
    /\ i \in 0..Len(months)
    /\ faults \in 0..MaxFaults
    /\ evals \in 0..MaxEvals

(* ============================== claims ================================ *)
SqlScripts == {"backfill", "convert", "parquet_to_csv"}
Terminal == {"SKIPPED", "COMPLETED", "FAILED"}
SettledStatuses == {"downloaded", "loaded", "completed"}

\* a run is between its start and its summary
InRun == pc \notin {"idle", "done"}

\* the download log holds a downloaded / loaded / completed row of unit u
Recorded(u) ==
    \E k \in 1..Len(download_log) :
        /\ <<download_log[k].year, download_log[k].month>> = u
        /\ download_log[k].status \in SettledStatuses

\* the rows of unit u with the given status that this run appended to a log
NewRows(log, u, status) ==
    {k \in 1..Len(log) :
        /\ log[k].ts > run_ts
        /\ <<log[k].year, log[k].month>> = u
        /\ log[k].status = status}

\* position of the first occurrence of op in ops, 0 when it is absent
FirstAt(op) ==
    IF \E k \in 1..Len(ops) : ops[k] = op
    THEN CHOOSE k \in 1..Len(ops) : ops[k] = op /\ \A j \in 1..(k - 1) : ops[j] # op
    ELSE 0

\* C1: a unit that is not the current month and has a downloaded / loaded /
\* completed row in the download log is, with forced reprocess unset, ended
\* SKIPPED by the very step that reaches it, and that step writes nothing: no
\* blob, no table and no log row changes, and no operation is issued for it.
C1_IdempotentSkip ==
    [][(/\ pc = "loop"
        /\ script \in SqlScripts
        /\ i < Len(months)
        /\ Recorded(months[i + 1])
        /\ months[i + 1] # today
        /\ ~FORCE_REPROCESS)
       => (/\ i' = i + 1
           /\ outcome'[i + 1].st = "SKIPPED"
           /\ skipped' = skipped + 1
           /\ pc' = "loop"
           /\ ops' = <<>>
           /\ attempts' = 0
           /\ UNCHANGED <<dbvars, blobvars, processed, failed>>)]_vars

C1_Witness ==
    /\ pc = "loop"
    /\ i > 0
    /\ outcome[i].st = "SKIPPED"
    /\ outcome[i].why = "settled"
    /\ Recorded(months[i])
    /\ months[i] # today
    /\ ~FORCE_REPROCESS
    /\ script = "backfill"

\* C2 as stated: every unit that ends FAILED has a failed row with the causing
\* message appended to the run log by this run.
C2_FailedAlwaysRecorded ==
    \A k \in 1..Len(outcome) :
        (script \in SqlScripts /\ outcome[k].st = "FAILED")
        => \E n \in NewRows(etl_run_log, months[k], "failed") :
               etl_run_log[n].message = outcome[k].why

\* C2, amended: a unit in which a step raises ends FAILED and is counted once
\* in failed; its failed row, carrying the causing message, is appended unless
\* the insert of that row raises too, and then no row is written; the run
\* reaches its summary only after every unit of the batch has ended; and a
\* batch of 3 whose unit 2 alone fails and whose units 1 and 3 complete is
\* summarised processed=2, failed=1, skipped=0, total=3.
C2_FailureIsolation ==
    script \in SqlScripts =>
        /\ failed = Cardinality({k \in 1..Len(outcome) : outcome[k].st = "FAILED"})
        /\ \A k \in 1..Len(outcome) :
              outcome[k].st = "FAILED" =>
                  /\ outcome[k].audit \in {"written", "lost"}
                  /\ Cardinality(NewRows(etl_run_log, months[k], "failed"))
                        = IF outcome[k].audit = "written" THEN 1 ELSE 0
                  /\ \A n \in NewRows(etl_run_log, months[k], "failed") :
                        etl_run_log[n].message = outcome[k].why
        /\ pc = "done" =>
              /\ i = Len(months)
              /\ \A k \in 1..Len(months) : outcome[k].st \in Terminal
        /\ (/\ pc = "done"
            /\ Len(months) = 3
            /\ outcome[1].st = "COMPLETED"
            /\ outcome[2].st = "FAILED"
            /\ outcome[3].st = "COMPLETED")
           => (processed = 2 /\ failed = 1 /\ skipped = 0)

C2_Witness ==
    /\ pc = "done"
    /\ Len(months) = 3
    /\ outcome[1].st = "COMPLETED"
    /\ outcome[2].st = "FAILED"
    /\ outcome[2].audit = "written"
    /\ outcome[3].st = "COMPLETED"
    /\ processed = 2 /\ failed = 1 /\ skipped = 0

\* unit u had a downloaded / loaded / completed row before this run started
OldRecorded(u) ==
    \E k \in 1..Len(download_log) :
        /\ download_log[k].ts <= run_ts
        /\ <<download_log[k].year, download_log[k].month>> = u
        /\ download_log[k].status \in SettledStatuses

\* this is the second run, in the same calendar month as the first, and the
\* first run too had the current-month unit in its batch
SecondRunSameMonth ==
    /\ Len(batches) = 2
    /\ batches[1].today = today
    /\ batches[2].today = today
    /\ today \in Range(batches[1].months)

\* C3 as stated: when the second run of a calendar month has handled the
\* current-month unit, it has issued delete-month and then the reload, and the
\* fact table holds exactly one load of that unit.
C3_ExactlyOneLoad ==
    (/\ SecondRunSameMonth
     /\ script \in SqlScripts
     /\ pc = "loop"
     /\ i > 0
     /\ cur = today)
    => /\ fact[today] = 1
       /\ 0 < FirstAt("delete_month")
       /\ FirstAt("delete_month") < FirstAt("load_from_staging")

\* C3, amended: when the download log already holds a downloaded / loaded /
\* completed row of the current-month unit as a run reaches it, every
\* load-from-staging of the unit in that run comes after a committed
\* delete-month of it; the unit that ends COMPLETED leaves exactly one load of
\* its month in the fact table, and the unit that ends FAILED or SKIPPED after
\* its delete-month leaves none.
C3_RefreshThenReload ==
    (/\ InRun
     /\ script \in SqlScripts
     /\ i > 0
     /\ cur = today
     /\ OldRecorded(cur))
    => /\ FirstAt("load_from_staging") > 0
            => /\ 0 < FirstAt("delete_month")
               /\ FirstAt("delete_month") < FirstAt("load_from_staging")
       /\ outcome[i].st = "COMPLETED" => fact[cur] = 1
       /\ (outcome[i].st \in {"FAILED", "SKIPPED"} /\ FirstAt("delete_month") > 0)
            => fact[cur] = 0

C3_Witness ==
    /\ SecondRunSameMonth
    /\ script = "backfill"
    /\ pc = "loop"
    /\ i > 0
    /\ cur = today
    /\ OldRecorded(cur)
    /\ outcome[i].st = "COMPLETED"
    /\ FirstAt("delete_month") = 1
    /\ fact[cur] = 1

C5_RetryBound ==
    (/\ script = "download"
     /\ i > 0
     /\ outcome[i].st = "FAILED"
     /\ outcome[i].why = "requests.get")
    => attempts = RETRIES

\* C6 as stated: a unit whose source answered not-found ends SKIPPED, after
\* one request and with nothing uploaded for it.
C6_NotFoundSoftSkip ==
    (pc = "loop" /\ i > 0 /\ r.status = 404)
    => /\ outcome[i].st = "SKIPPED"
       /\ attempts = 1
       /\ ops = <<>> \/ ops = <<"delete_month">> \/ ops = <<"delete_blob">>

\* C7 as stated: after a run no unit's parquet path holds a blob that is
\* empty or below the minimum size.
C7_NoInvalidResidue ==
    pc = "done" => \A u \in AllUnits : parquet[u] = -1 \/ parquet[u] >= MIN_BYTES

\* C8 as stated: a unit whose retrieved artifact is below the minimum size or
\* does not parse ends SKIPPED with a reason.
C8_UndersizedSoftSkip ==
    (/\ pc = "loop"
     /\ i > 0
     /\ r.status = 200
     /\ r.len < MIN_BYTES \/ ~r.parses
     /\ outcome[i].why # "upload_blob")
    => /\ outcome[i].st = "SKIPPED"
       /\ outcome[i].why # ""

\* C9 as stated: a unit that ends SKIPPED for an absent, empty, undersized or
\* unparseable source has exactly one skipped row, with the reason, appended
\* to the log by this run.
C9_SoftSkipAudited ==
    (/\ script \in SqlScripts
     /\ pc = "loop"
     /\ i > 0
     /\ outcome[i].st = "SKIPPED"
     /\ outcome[i].why # "settled")
    => /\ Cardinality(NewRows(etl_run_log, cur, "skipped")) = 1
       /\ \A n \in NewRows(etl_run_log, cur, "skipped") :
             etl_run_log[n].message = outcome[i].why

\* the status of the most recent row of unit u over both log tables
LatestStatus(u) ==
    LET rows == {row \in Range(download_log) \cup Range(etl_run_log) :
                    <<row.year, row.month>> = u}
    IN  IF rows = {} THEN "none"
        ELSE (CHOOSE row \in rows : \A o \in rows : o.ts <= row.ts).status

\* C10 as stated: the step that reaches a unit ends it as settled exactly when
\* the latest row of the unit has a terminal non-failure status, the unit is
\* not the current month and the run is not forced.
C10_SettledIffLatest ==
    [][(pc = "loop" /\ script \in SqlScripts /\ i < Len(months) /\ i' = i + 1)
       => (outcome'[i + 1].why = "settled"
           <=> (/\ LatestStatus(months[i + 1]) \in SettledStatuses
                /\ months[i + 1] # today
                /\ ~FORCE_REPROCESS))]_vars

\* C11 as stated: the fact table never holds two loads of the same unit.  A
\* load-from-staging of a unit that still has a committed load, with no
\* delete-month of the unit in between, is what makes the count reach 2.
C11_NoOverlappingLoads ==
    \A u \in AllUnits : fact[u] <= 1

\* the landing and promotion steps, in the order the scripts issue them
LandAndPromote ==
    <<"truncate", "bulk_insert", "stage_from_raw", "load_from_staging">>

\* the landing and promotion steps committed for the unit being handled
LandOps == SelectSeq(ops, LAMBDA op : op \in Range(LandAndPromote))

\* C12: the landing and promotion steps committed for a unit are always the
\* first n of truncate, bulk load, stage-from-raw, load-from-staging, in that
\* order and each once; a step is issued only when all the steps before it
\* are committed for that same unit, so load-from-staging is issued only after
\* the unit's truncate, bulk load and stage; and a unit that is processed to
\* completion has all four.
C12_CommittedStageOrder ==
    (script \in SqlScripts /\ i > 0)
    => /\ \E n \in 0..4 : LandOps = SubSeq(LandAndPromote, 1, n)
       /\ pc = "truncate" => LandOps = <<>>
       /\ pc = "bulk" => LandOps = SubSeq(LandAndPromote, 1, 1)
       /\ pc = "stage" => LandOps = SubSeq(LandAndPromote, 1, 2)
       /\ pc = "load" => LandOps = SubSeq(LandAndPromote, 1, 3)
       /\ outcome[i].st = "COMPLETED" => LandOps = LandAndPromote

C12_Witness ==
    /\ script = "convert"
    /\ pc = "loop"
    /\ i > 0
    /\ outcome[i].st = "COMPLETED"
    /\ LandOps = LandAndPromote
    /\ fact[cur] = 1

\* delete-month was issued for the unit being handled: it is committed, or it
\* raised and ended the unit
DeleteIssued ==
    \/ \E k \in 1..Len(ops) : ops[k] = "delete_month"
    \/ outcome[i].st = "FAILED" /\ outcome[i].why = "delete_month"

\* C13 as stated: a unit that has ended had delete-month issued exactly when
\* it had a downloaded / loaded / completed row before the run and is the
\* current month.
C13_RefreshIff ==
    (script \in SqlScripts /\ pc = "loop" /\ i > 0)
    => (DeleteIssued <=> (OldRecorded(cur) /\ cur = today))

\* C13, amended: delete-month is issued for a unit only when the unit had a
\* downloaded / loaded / completed row before the run and is the current
\* month; the step that leaves the refresh point of such a unit issues it,
\* whatever the forced-reprocess flag, and the step that leaves the refresh
\* point of any other unit does not; backfill reaches the refresh point for
\* every unit it does not skip as settled; and the landing table is truncated
\* for a recorded current-month unit only after its delete-month is committed.
C13_RefreshRule ==
    [][(script' \in SqlScripts /\ i' > 0)
       => /\ DeleteIssued' => (OldRecorded(cur)' /\ cur' = today')
          /\ (pc = "refresh" /\ pc' # "refresh")
                => (DeleteIssued' <=> (OldRecorded(cur) /\ cur = today))
          /\ (script = "backfill" /\ pc = "loop" /\ i' = i + 1
              /\ outcome'[i'].why # "settled")
                => pc' = "refresh"
          /\ (pc' \in {"truncate", "bulk", "stage", "load"}
              /\ OldRecorded(cur)' /\ cur' = today')
                => FirstAt("delete_month")' > 0
          /\ (FirstAt("truncate")' > 0 /\ FirstAt("delete_month")' > 0)
                => FirstAt("delete_month")' < FirstAt("truncate")']_vars

C13_Witness ==
    /\ script = "parquet_to_csv"
    /\ ~FORCE_REPROCESS
    /\ i > 0
    /\ pc = "bulk"
    /\ OldRecorded(cur)
    /\ cur = today
    /\ FirstAt("delete_month") > 0
    /\ FirstAt("delete_month") < FirstAt("truncate")

\* the calendar month after u
NextMonth(u) == IF u[2] = 12 THEN <<u[1] + 1, 1>> ELSE <<u[1], u[2] + 1>>

\* months since year 0
MonthIndex(u) == u[1] * 12 + u[2]

\* C14: build_months(start_year, start_month, count) returns count units; the
\* first is (start_year, start_month), each next one is the calendar month
\* after the one before it (month 1 of the next year after month 12), so the
\* units ascend; the result is the same whatever the current date is; and
\* start (2024, 1) with count 3 gives (2024,1), (2024,2), (2024,3).
C14_BuildMonths ==
    (script = "backfill" /\ pc = "loop")
    => /\ Len(months) = args.count
       /\ args.count > 0 => months[1] = <<args.start_year, args.start_month>>
       /\ \A k \in 1..(Len(months) - 1) :
             /\ months[k + 1] = NextMonth(months[k])
             /\ MonthIndex(months[k]) < MonthIndex(months[k + 1])
       /\ \A k \in 1..Len(months) : months[k][2] \in 1..12
       /\ (args.start_year = 2024 /\ args.start_month = 1 /\ args.count = 3)
             => months = <<<<2024, 1>>, <<2024, 2>>, <<2024, 3>>>>

C14_Witness ==
    /\ script = "backfill"
    /\ pc = "loop"
    /\ args.start_year = 2024 /\ args.start_month = 12 /\ args.count = EnumCount
    /\ months[1] = <<2024, 12>>
    /\ months[2] = <<2025, 1>>
    /\ Len(months) = EnumCount
    /\ today = <<2024, 11>>

\* C15: month_range(start, end) yields the months from start to end, both
\* included, each calendar month between them exactly once and in ascending
\* order, each the month after the one before it; it yields nothing when
\* start is after end.
C15_MonthRange ==
    (script = "convert" /\ pc = "loop")
    => LET s == <<args.start_year, args.start_month>>
           e == <<args.end_year, args.end_month>>
       IN  /\ MonthIndex(s) > MonthIndex(e) => months = <<>>
           /\ MonthIndex(s) <= MonthIndex(e)
                 => /\ Len(months) = MonthIndex(e) - MonthIndex(s) + 1
                    /\ months[1] = s
                    /\ months[Len(months)] = e
           /\ \A k \in 1..(Len(months) - 1) :
                 /\ months[k + 1] = NextMonth(months[k])
                 /\ MonthIndex(months[k]) < MonthIndex(months[k + 1])
           /\ \A y \in BaseYear..(BaseYear + EnumYears - 1), m \in 1..12 :
                 Cardinality({k \in 1..Len(months) : months[k] = <<y, m>>})
                     = IF MonthIndex(s) <= MonthIndex(<<y, m>>)
                          /\ MonthIndex(<<y, m>>) <= MonthIndex(e)
                       THEN 1 ELSE 0

C15_Witness ==
    /\ script = "convert"
    /\ pc = "loop"
    /\ args.start_year = 2024 /\ args.start_month = 11
    /\ args.end_year = 2025 /\ args.end_month = 2
    /\ months = <<<<2024, 11>>, <<2024, 12>>, <<2025, 1>>, <<2025, 2>>>>

\* the rows of unit u, with a status in S, that this run appended to either log
NewRowsIn(u, S) ==
    {k \in 1..Len(download_log) :
        /\ download_log[k].ts > run_ts
        /\ <<download_log[k].year, download_log[k].month>> = u
        /\ download_log[k].status \in S}
    \cup
    {Len(download_log) + k : k \in
        {n \in 1..Len(etl_run_log) :
            /\ etl_run_log[n].ts > run_ts
            /\ <<etl_run_log[n].year, etl_run_log[n].month>> = u
            /\ etl_run_log[n].status \in S}}

\* C16: a run appends, over both log tables, at most one completed, failed or
\* skipped row for each unit of its batch, and a unit to which it appended a
\* failed row has no completed and no loaded row appended by the same run.
C16_OneTerminalRecord ==
    script \in SqlScripts
    => \A k \in 1..Len(months) :
          /\ Cardinality(NewRowsIn(months[k], {"completed", "failed", "skipped"})) <= 1
          /\ NewRowsIn(months[k], {"failed"}) # {}
                => NewRowsIn(months[k], {"completed", "loaded"}) = {}
          /\ NewRowsIn(months[k], {"completed", "failed", "skipped"}) # {}
                => outcome[k].st \in {"FAILED", "SKIPPED"}

C16_Witness ==
    /\ script = "backfill"
    /\ pc = "loop"
    /\ i = 2
    /\ outcome[1].st = "SKIPPED" /\ outcome[1].audit = "written"
    /\ outcome[2].st = "FAILED" /\ outcome[2].audit = "written"
    /\ FirstAt("log_download") > 0
    /\ Cardinality(NewRowsIn(months[1], {"completed", "failed", "skipped"})) = 1
    /\ Cardinality(NewRowsIn(months[2], {"completed", "failed", "skipped"})) = 1

\* the landing or promotion step issued at a position of main(), with the
\* cause recorded when it raises
StepAt ==
    [truncate |-> "truncate", bulk |-> "bulk_insert", stage |-> "stage_from_raw",
     load |-> "load_from_staging"]

CauseAt ==
    [truncate |-> "truncate", bulk |-> "bulk_insert",
     stage |-> "usp_stage_from_raw_yellow", load |-> "usp_load_month_from_staging"]

\* C17: a landing or promotion step either commits or raises; when it raises
\* the unit ends FAILED in that very step, counted once, no later step of the
\* unit is issued, and nothing the unit committed before is undone: the blobs
\* and the tables are as they were, so after a delete-month the fact table has
\* no load of the month, the download row is in the log, a landing table that
\* was truncated and not yet bulk-loaded is empty, the bulk-loaded rows are
\* in the landing table and the staged rows are in staging.
C17_StepFailureScope ==
    [][(script \in SqlScripts /\ pc \in DOMAIN StepAt /\ pc' # pc)
       => \/ /\ ops' = Append(ops, StepAt[pc])
             /\ outcome'[i].st # "FAILED"
             /\ i' = i
          \/ /\ outcome'[i].st = "FAILED"
             /\ outcome'[i].why = CauseAt[pc]
             /\ i' = i
             /\ pc' = "loop"
             /\ ops' = ops
             /\ failed' = failed + 1
             /\ UNCHANGED <<download_log, raw, stg, fact, csv, parquet, processed,
                            skipped>>
             /\ FirstAt("delete_month") > 0 => fact'[cur] = 0
             /\ FirstAt("log_download") > 0
                   => NewRows(download_log', cur, "downloaded") # {}
             /\ pc = "bulk" => raw' = {}
             /\ FirstAt("bulk_insert") > 0 => raw' = {cur}
             /\ FirstAt("stage_from_raw") > 0 => stg' = {cur}]_vars

C17_Witness ==
    /\ script = "backfill"
    /\ pc = "loop"
    /\ i > 0
    /\ outcome[i].st = "FAILED"
    /\ outcome[i].why = "usp_load_month_from_staging"
    /\ FirstAt("delete_month") > 0
    /\ FirstAt("stage_from_raw") > 0
    /\ fact[cur] = 0
    /\ stg = {cur}
    /\ raw = {cur}
    /\ NewRows(download_log, cur, "downloaded") # {}

\* C18: the units of a run are handled strictly one after another: a unit is
\* reached only when the one before it has ended SKIPPED, COMPLETED or FAILED;
\* the summary is reported only when every unit of the batch has ended; and a
\* run that has started reports its summary, whatever its batch and whatever
\* the outcome of each fetch and of each step.
C18_RunTerminates ==
    /\ [][(i' = i + 1 /\ i > 0) => outcome[i].st \in Terminal]_vars
    /\ [](pc = "done"
             => /\ i = Len(months)
                /\ \A k \in 1..Len(months) : outcome[k].st \in Terminal)
    /\ (InRun ~> pc = "done")

C18_Witness ==
    /\ script = "backfill"
    /\ pc = "done"
    /\ Len(months) = 3
    /\ outcome[1].st = "SKIPPED"
    /\ outcome[2].st = "FAILED"
    /\ outcome[3].st = "COMPLETED"

\* C19 as stated: a log write that raises ends neither the unit nor the run.
\* The step that writes the download row leaves the unit in processing and
\* takes it on to the truncate of the landing table, whether the row was
\* written or not; and a unit whose failed row was lost is counted in failed
\* once, with the run at the top of its loop.
C19_BestEffortLogging ==
    [][(script \in SqlScripts /\ i > 0)
       => /\ (pc = "log_download" /\ pc' # pc)
                => (pc' = "truncate" /\ outcome'[i].st = "PROCESSING")
          /\ (outcome[i].st = "PROCESSING" /\ outcome'[i].st = "FAILED"
              /\ outcome'[i].audit = "lost")
                => (failed' = failed + 1 /\ pc' = "loop" /\ i' = i)]_vars

\* C20 as stated: in the pipelines that convert a stored parquet, a unit whose
\* CSV is already in storage is, with the delete flag unset, taken on to the
\* refresh and landing steps with no conversion and no upload, the CSV in
\* storage being the one that is bulk-loaded; and the bulk load of any unit
\* finds a CSV in storage, rebuilt in this run when the flag is set or when
\* there was none.
C20_ArtifactReuse ==
    [][(script \in {"convert", "parquet_to_csv"} /\ i > 0)
       => /\ (/\ pc = "parquet_exists"
              /\ pc' # pc
              /\ parquet[cur] # -1
              /\ csv[cur] # 0
              /\ ~delete_existing_csv)
                => (csv' = csv /\ ops' = ops /\ pc' = "refresh")
          /\ (pc' = "bulk" /\ i' = i)
                => /\ csv'[cur] # 0
                   /\ delete_existing_csv => csv'[cur] = runs
                   /\ FirstAt("upload_csv")' > 0 <=> csv'[cur] = runs]_vars

\* the units of the batch that ended with status st in this run
EndedAs(st) == {k \in 1..Len(outcome) : outcome[k].st = st}

\* C21: at every point of a run each counter is the number of units that have
\* ended in its state: processed the COMPLETED ones, skipped the SKIPPED ones,
\* failed the FAILED ones; so the three add up to the number of units that
\* have ended, and to the size of the batch when the summary is reported.
C21_CountersPartition ==
    script # "none"
    => /\ processed = Cardinality(EndedAs("COMPLETED"))
       /\ skipped = Cardinality(EndedAs("SKIPPED"))
       /\ failed = Cardinality(EndedAs("FAILED"))
       /\ processed + skipped + failed
             = Cardinality({k \in 1..Len(outcome) : outcome[k].st \in Terminal})
       /\ pc = "done" => processed + skipped + failed = Len(months)

C21_Witness ==
    /\ script = "convert"
    /\ pc = "done"
    /\ Len(months) = 3
    /\ processed = 1 /\ skipped = 1 /\ failed = 1

\* C22 as stated: a unit that ends SKIPPED had no write committed for it by the
\* run, apart from its skipped row: no delete-month, no blob written or
\* deleted, no change of the landing, staging or fact table; so a current-month
\* unit that ends SKIPPED has the loads it had when the run reached it.
C22_SkipLeavesWarehouse ==
    (script \in SqlScripts /\ pc = "loop" /\ i > 0 /\ outcome[i].st = "SKIPPED")
    => /\ ops = <<>>
       /\ (cur = today /\ OldRecorded(cur) /\ Len(batches) = 2
           /\ batches[1].months = <<cur>> /\ faults = 0)
             => fact[cur] >= 1

\* C23: whenever stage-from-raw is to be invoked for a unit, the landing table
\* holds the rows of that unit and of no other: the unit's own processing
\* truncated the table and then bulk-loaded the unit's CSV, which is in
\* storage; and the invocation, committed or raising, leaves the landing table
\* as it found it.
C23_LandingSingleUnit ==
    [][(script' \in SqlScripts /\ i' > 0)
       => /\ pc' = "stage"
                => /\ raw' = {cur'}
                   /\ csv'[cur'] # 0
                   /\ 0 < FirstAt("truncate")'
                   /\ FirstAt("truncate")' < FirstAt("bulk_insert")'
          /\ pc = "stage" => raw' = raw]_vars

C23_Witness ==
    /\ script = "backfill"
    /\ i = 2
    /\ outcome[1].st = "COMPLETED"
    /\ months[1] \in stg
    /\ pc = "stage"
    /\ raw = {months[2]}

\* C24: in a download run with DELETE_EXISTING unset, a unit whose blob is in
\* the container when the run reaches it ends SKIPPED in the next step, with
\* the blob as it was, no request made and skipped incremented; and any step
\* that removes a blob is taken with DELETE_EXISTING set, on a blob that
\* exists, and counts it in deleted.
C24_SafeMode ==
    [][(script = "download" /\ i > 0 /\ i' = i)
       => /\ (pc = "try" /\ pc' # pc /\ ~DELETE_EXISTING /\ parquet[cur] # -1)
                => /\ parquet' = parquet
                   /\ attempts' = 0
                   /\ ops' = <<>>
                   /\ outcome'[i].st = "SKIPPED"
                   /\ skipped' = skipped + 1
                   /\ pc' = "loop"
          /\ (\E u \in AllUnits : parquet[u] # -1 /\ parquet'[u] = -1)
                => /\ DELETE_EXISTING
                   /\ parquet[cur] # -1
                   /\ parquet' = [parquet EXCEPT ![cur] = -1]
                   /\ deleted' = deleted + 1
          /\ (~DELETE_EXISTING /\ parquet[cur] # -1) => parquet'[cur] = parquet[cur]]_vars

C24_Witness ==
    /\ script = "download"
    /\ ~DELETE_EXISTING
    /\ runs = 2
    /\ pc = "loop"
    /\ i > 0
    /\ outcome[i].st = "SKIPPED"
    /\ outcome[i].why = "already exists (safe mode)"
    /\ parquet[cur] >= MIN_BYTES
    /\ attempts = 0

====
